---- MODULE Spec2Model ----
(***************************************************************************)
(* A model of the regulus front-end (React components):                    *)
(*   App                  src/unnamed/part_000                             *)
(*   MapPage              src/frontend/src/MapPage.jsx                     *)
(*   MiningPitVisualizer  src/frontend/src/components/Visualization3D/     *)
(*                        MiningPitVisualizer.jsx                          *)
(*                                                                         *)
(* JavaScript values are tagged records, so that property reads on missing *)
(* members, truthiness tests (!x, x || y, x ? a : b) and the TypeError of  *)
(* a read through undefined/null are computed as the engine computes them. *)
(* Numbers with decimals are held as integers: zoom in tenths (11.2 is     *)
(* 112), longitude/latitude in hundredths of a degree (86.44 is 8644),     *)
(* opacities in hundredths.  Pitch, bearing and milliseconds are integers  *)
(* in the source already.                                                  *)
(***************************************************************************)
EXTENDS Integers, Sequences, FiniteSets, TLC

VARIABLES
    viewState,          \* useState viewState (App and MapPage each own one)
    popupInfo,          \* useState popupInfo
    analysisResult,     \* App: useState analysisResult
    isLoading,          \* App: useState isLoading
    error,              \* App: useState error
    file,               \* App: fileInputRef.current.files[0]
    requests,           \* App: handleAnalysis invocations suspended at an await
    alertOpen,          \* App: the blocking alert() dialog is showing
    data,               \* MiningPitVisualizer: the data prop
    illegalPitsWithData,\* MiningPitVisualizer: const illegalPitsWithData
    legalPitsWithData,  \* MiningPitVisualizer: const legalPitsWithData
    sources,            \* MiningPitVisualizer: the <Source>/<Layer> elements returned
    currentViewMode,    \* MapPage: useState currentViewMode
    isAnimating,        \* MapPage: useState isAnimating
    animationProgress,  \* MapPage: useState animationProgress, in percent
    is3DEnabled,        \* MapPage: useState is3DEnabled
    timers,             \* MapPage: pending setTimeout callbacks
    orbits,             \* MapPage: running requestAnimationFrame loops
    calls,              \* MapPage: callbacks called so far (direct calls only)
    lastOp              \* history: the operation that produced this state

appVars == <<analysisResult, isLoading, error, file, requests, alertOpen>>
visVars == <<data, illegalPitsWithData, legalPitsWithData, sources>>
mapVars == <<currentViewMode, isAnimating, animationProgress, is3DEnabled, timers, orbits>>
vars == <<viewState, popupInfo, analysisResult, isLoading, error, file, requests,
          alertOpen, data, illegalPitsWithData, legalPitsWithData, sources,
          currentViewMode, isAnimating, animationProgress, is3DEnabled, timers, orbits,
          calls, lastOp>>

----------------------------------------------------------------------------
(* JavaScript values *)

Undefined == [t |-> "undefined"]
Null == [t |-> "null"]
Num(n) == [t |-> "number", v |-> n]
Str(s) == [t |-> "string", v |-> s]
Obj(f) == [t |-> "object", f |-> f]
Arr(e) == [t |-> "array", e |-> e]

\* ToBoolean: undefined, null, 0 and "" are falsy; objects and arrays (the
\* empty array too) are truthy.
Truthy(v) ==
    CASE v.t = "undefined" -> FALSE
      [] v.t = "null" -> FALSE
      [] v.t = "number" -> v.v # 0
      [] v.t = "string" -> v.v # ""
      [] OTHER -> TRUE

\* A property read o.k or o[k] throws a TypeError when o is undefined or null.
Throws(o) == o.t \in {"undefined", "null"}

\* o.k for a value that is not undefined/null: the member, or undefined.
Get(o, k) == IF o.t = "object" /\ k \in DOMAIN o.f THEN o.f[k] ELSE Undefined

\* a[i], i counted from 0.
At(a, i) == IF a.t = "array" /\ i >= 0 /\ i < Len(a.e) THEN a.e[i + 1] ELSE Undefined

\* { ...a, ...b } on member maps: b's members override a's.
Spread(a, b) ==
    [k \in (DOMAIN a) \cup (DOMAIN b) |-> IF k \in DOMAIN b THEN b[k] ELSE a[k]]

\* The member map that ...v contributes to an object literal (nothing for
\* undefined and null).
Members(v) == IF v.t = "object" THEN v.f ELSE <<>>

\* x || y
OrElse(x, y) == IF Truthy(x) THEN x ELSE y

----------------------------------------------------------------------------
(* MiningPitVisualizer *)

DefaultDepth == 50
ExtrusionFactor == 10
ExtrusionOpacity == 85
FillOpacity == 60

\* Mutant of OperationAt: the operation is looked up for legal features too.
OperationAtAnyCollection(d, isIllegal, index) ==
    At(OrElse(Get(d, "illegal_operations"), Arr(<<>>)), index)

\* const operation = isIllegal ? (data.illegal_operations || [])[index] : null
OperationAt(d, isIllegal, index) ==
    IF isIllegal THEN At(OrElse(Get(d, "illegal_operations"), Arr(<<>>)), index)
    ELSE Null

\* The callback of features.map: one annotated feature.
AnnotateFeature(d, feature, index, isIllegal) ==
    LET operation == OperationAt(d, isIllegal, index)
    IN Obj(Spread(Members(feature),
           [properties |-> Obj(Spread(Members(Get(feature, "properties")),
               [status |-> IF isIllegal THEN Str("illegal") ELSE Str("legal"),
                depth |-> IF Truthy(operation) THEN Get(operation, "avg_depth_m")
                          ELSE Num(DefaultDepth),
                volume |-> IF Truthy(operation) THEN Get(operation, "volume_m3")
                           ELSE Str("N/A"),
                name |-> IF isIllegal
                         THEN Str("Illegal Pit #" \o ToString(index + 1))
                         ELSE Str("Legal Area #" \o ToString(index + 1))]))]))

\* Mutant of NoCollection: an empty features array counts as no collection.
NoCollectionOrEmpty(featureCollection) ==
    \/ ~Truthy(featureCollection)
    \/ ~Truthy(Get(featureCollection, "features"))
    \/ Get(featureCollection, "features") = Arr(<<>>)

\* if (!featureCollection || !featureCollection.features) return null
NoCollection(featureCollection) ==
    \/ ~Truthy(featureCollection)
    \/ ~Truthy(Get(featureCollection, "features"))

addDataToFeatures(d, featureCollection, isIllegal) ==
    IF NoCollection(featureCollection) THEN Null
    ELSE LET features == Get(featureCollection, "features").e
         IN Obj(Spread(Members(featureCollection),
                [features |-> Arr([i \in 1..Len(features) |->
                      AnnotateFeature(d, features[i], i - 1, isIllegal)])]))

layerPaint3D(color) ==
    [color |-> color, heightFactor |-> ExtrusionFactor, base |-> 0,
     opacity |-> ExtrusionOpacity]

layerPaint2D(color) ==
    [color |-> color, opacity |-> FillOpacity, outline |-> "#ffffff"]

IllegalSource(pits) ==
    [id |-> "illegal-pits", data |-> pits,
     layers |-> {[id |-> "illegal-pits-3d", type |-> "fill-extrusion",
                  paint |-> layerPaint3D("#B71C1C")],
                 [id |-> "illegal-pits-2d", type |-> "fill",
                  paint |-> layerPaint2D("#FF6B6B")]}]

LegalSource(pits) ==
    [id |-> "legal-pits", data |-> pits,
     layers |-> {[id |-> "legal-pits-3d", type |-> "fill-extrusion",
                  paint |-> layerPaint3D("#1B5E20")],
                 [id |-> "legal-pits-2d", type |-> "fill",
                  paint |-> layerPaint2D("#50C878")]}]

\* {illegalPitsWithData && (<Source ...>)}
RegisterIllegal(pits) == IF Truthy(pits) THEN {IllegalSource(pits)} ELSE {}

\* {legalPitsWithData && (<Source ...>)}
RegisterLegal(pits) == IF Truthy(pits) THEN {LegalSource(pits)} ELSE {}

\* if (!data || !data.geospatial_data) return null
NoData(d) == ~Truthy(d) \/ ~Truthy(Get(d, "geospatial_data"))

\* One render of the component with prop d: the two annotated constants and
\* the sources (with their layers) of the returned fragment.
MiningPitVisualizer(d) ==
    IF NoData(d)
    THEN [illegal |-> Undefined, legal |-> Undefined, sources |-> {}]
    ELSE LET gd == Get(d, "geospatial_data")
             illegal == addDataToFeatures(d, Get(gd, "illegal_polygons"), TRUE)
             legal == addDataToFeatures(d, Get(gd, "legal_polygons"), FALSE)
         IN [illegal |-> illegal, legal |-> legal,
             sources |-> RegisterIllegal(illegal) \cup RegisterLegal(legal)]

----------------------------------------------------------------------------
(* Inputs of the visualizer: GeoJSON collections and operation records *)

MaxFeatures == 2
MaxOps == 2

Ring(lon, lat) == Arr(<<Arr(<<Num(lon), Num(lat)>>), Arr(<<Num(lon + 1), Num(lat)>>)>>)

Polygon(lon, lat) ==
    Obj([type |-> Str("Polygon"), coordinates |-> Arr(<<Ring(lon, lat)>>)])

\* A feature with properties of its own, one whose properties already carry
\* status/depth/volume members, and one with no properties member.
FeatureA ==
    Obj([type |-> Str("Feature"), geometry |-> Polygon(8650, 2380),
         properties |-> Obj([license |-> Str("L-1")])])
FeatureB ==
    Obj([type |-> Str("Feature"), geometry |-> Polygon(8640, 2370),
         properties |-> Obj([status |-> Str("legal"), depth |-> Num(7),
                             volume |-> Num(900)])])
FeatureC == Obj([type |-> Str("Feature"), geometry |-> Polygon(8660, 2390)])

FeatureInputs == {FeatureA, FeatureB, FeatureC}

SeqsUpTo(S, n) == UNION {[1..k -> S] : k \in 0..n}

FeatureCollection(features) ==
    Obj([type |-> Str("FeatureCollection"), features |-> Arr(features)])

\* A collection that is absent (undefined, null), one with no features
\* member, one whose features member is null, and collections with 0..MaxFeatures
\* features.
CollectionInputs ==
    {Undefined, Null, Obj([type |-> Str("FeatureCollection")]),
     Obj([type |-> Str("FeatureCollection"), features |-> Null])}
    \cup {FeatureCollection(fs) : fs \in SeqsUpTo(FeatureInputs, MaxFeatures)}

\* An operation record, one without volume_m3, and a null entry.
OperationInputs ==
    {Obj([avg_depth_m |-> Num(31), volume_m3 |-> Num(12000)]),
     Obj([avg_depth_m |-> Num(12)]),
     Null}

OperationsInputs ==
    {Undefined} \cup {Arr(ops) : ops \in SeqsUpTo(OperationInputs, MaxOps)}

AnalysisData(legal, illegal, ops) ==
    Obj([geospatial_data |-> Obj([legal_polygons |-> legal,
                                  illegal_polygons |-> illegal]),
         illegal_operations |-> ops])

\* The data prop: absent (MapPage renders <MiningPitVisualizer /> with no
\* prop), without geospatial_data, or an analysis result.
DataInputs ==
    {Undefined, Null, Obj([illegal_operations |-> Arr(<<>>)])}
    \cup {AnalysisData(l, i, o) : l \in CollectionInputs, i \in CollectionInputs,
                                  o \in OperationsInputs}

----------------------------------------------------------------------------
(* App: initial state (useState initial values) *)

AppInit ==
    /\ viewState = [longitude |-> 8644, latitude |-> 2375, zoom |-> 100,
                    pitch |-> 45, bearing |-> -30]
    /\ popupInfo = Null
    /\ analysisResult = Null
    /\ isLoading = FALSE
    /\ error = Null
    /\ file = Undefined
    /\ requests = <<>>
    /\ alertOpen = FALSE

VisualizerUnmounted ==
    /\ data = Undefined
    /\ illegalPitsWithData = Undefined
    /\ legalPitsWithData = Undefined
    /\ sources = {}

\* MapPage: useState initial values, no timer set and no loop running.
MapPageModes ==
    /\ currentViewMode = "top-down"
    /\ isAnimating = FALSE
    /\ animationProgress = 0
    /\ is3DEnabled = TRUE
    /\ timers = <<>>
    /\ orbits = <<>>
    /\ calls = 0

----------------------------------------------------------------------------
(* App: the upload/analysis client, the map callbacks and the render of the *)
(* visualizer                                                              *)

MaxRequests == 2

AnalysisZoom == 120
AnalysisTransition == 2000

GenericMessage == "Backend analysis failed"
\* err.message of the engine's own errors: the TypeError of a rejected fetch,
\* the SyntaxError of response.json() on a body that is not JSON, the
\* TypeError of a property read through undefined/null.
NetworkErrorMessage == "Failed to fetch"
ParseErrorMessage == "Unexpected token < in JSON at position 0"
TypeErrorMessage == "Cannot read properties of undefined"

\* {analysisResult && <MiningPitVisualizer data={analysisResult} />}: the
\* visualizer as rendered for a value of analysisResult.
VisualizerFor(result) ==
    IF Truthy(result)
    THEN LET out == MiningPitVisualizer(result)
         IN /\ data' = result
            /\ illegalPitsWithData' = out.illegal
            /\ legalPitsWithData' = out.legal
            /\ sources' = out.sources
    ELSE /\ data' = Undefined
         /\ illegalPitsWithData' = Undefined
         /\ legalPitsWithData' = Undefined
         /\ sources' = {}

\* Mutant of AnalyzeDisabled: the button is never disabled.
AnalyzeNeverDisabled == FALSE

\* <button onClick={handleAnalysis} disabled={isLoading}>
AnalyzeDisabled == isLoading

\* Mutant of handleAnalysis: the three resets run before the file check.
handleAnalysisResetFirst ==
    /\ isLoading' = TRUE
    /\ error' = Null
    /\ analysisResult' = Null
    /\ VisualizerFor(Null)
    /\ IF ~Truthy(file)
       THEN /\ alertOpen' = TRUE
            /\ lastOp' = [op |-> "handleAnalysis", outcome |-> "alert"]
            /\ UNCHANGED <<viewState, popupInfo, file, requests, mapVars, calls>>
       ELSE /\ requests' = Append(requests, [pc |-> "fetch", before |-> analysisResult])
            /\ lastOp' = [op |-> "handleAnalysis", outcome |-> "started"]
            /\ UNCHANGED <<viewState, popupInfo, file, alertOpen, mapVars, calls>>

\* Mutant of handleAnalysis: the stored result is not reset when a request
\* starts.
handleAnalysisKeepsResult ==
    IF ~Truthy(file)
    THEN /\ alertOpen' = TRUE
         /\ lastOp' = [op |-> "handleAnalysis", outcome |-> "alert"]
         /\ UNCHANGED <<viewState, popupInfo, analysisResult, isLoading, error,
                        file, requests, visVars, mapVars, calls>>
    ELSE /\ isLoading' = TRUE
         /\ error' = Null
         /\ requests' = Append(requests, [pc |-> "fetch", before |-> analysisResult])
         /\ lastOp' = [op |-> "handleAnalysis", outcome |-> "started"]
         /\ UNCHANGED <<viewState, popupInfo, analysisResult, file, alertOpen,
                        visVars, mapVars, calls>>

\* Mutant of handleAnalysis: starting a request closes the popup.
handleAnalysisClosesPopup ==
    IF ~Truthy(file)
    THEN /\ alertOpen' = TRUE
         /\ lastOp' = [op |-> "handleAnalysis", outcome |-> "alert"]
         /\ UNCHANGED <<viewState, popupInfo, analysisResult, isLoading, error,
                        file, requests, visVars, mapVars, calls>>
    ELSE /\ isLoading' = TRUE
         /\ error' = Null
         /\ analysisResult' = Null
         /\ VisualizerFor(Null)
         /\ popupInfo' = Null
         /\ requests' = Append(requests, [pc |-> "fetch", before |-> analysisResult])
         /\ lastOp' = [op |-> "handleAnalysis", outcome |-> "started"]
         /\ UNCHANGED <<viewState, file, alertOpen, mapVars, calls>>

\* handleAnalysis up to its first await: the file check and alert, or the
\* three resets and the fetch.
handleAnalysis ==
    IF ~Truthy(file)
    THEN /\ alertOpen' = TRUE
         /\ lastOp' = [op |-> "handleAnalysis", outcome |-> "alert"]
         /\ UNCHANGED <<viewState, popupInfo, analysisResult, isLoading, error,
                        file, requests, visVars, mapVars, calls>>
    ELSE /\ isLoading' = TRUE
         /\ error' = Null
         /\ analysisResult' = Null
         /\ VisualizerFor(Null)
         /\ requests' = Append(requests, [pc |-> "fetch", before |-> analysisResult])
         /\ lastOp' = [op |-> "handleAnalysis", outcome |-> "started"]
         /\ UNCHANGED <<viewState, popupInfo, file, alertOpen, mapVars, calls>>

\* A click on the Analyze button.
AnalyzeClick ==
    /\ ~alertOpen
    /\ ~AnalyzeDisabled
    /\ Len(requests) < MaxRequests
    /\ handleAnalysis

\* The user closes the alert: alert() returns and handleAnalysis returns.
AlertDismiss ==
    /\ alertOpen
    /\ alertOpen' = FALSE
    /\ lastOp' = [op |-> "alertDismissed"]
    /\ UNCHANGED <<viewState, popupInfo, analysisResult, isLoading, error, file,
                   requests, visVars, mapVars, calls>>

Remove(seq, i) == [j \in 1..(Len(seq) - 1) |-> IF j < i THEN seq[j] ELSE seq[j + 1]]

\* Mutant of Finally: the finally block leaves isLoading alone.
FinallyKeepsLoading == UNCHANGED isLoading

\* finally { setIsLoading(false) }
Finally == isLoading' = FALSE

\* Mutant of CatchAndFinally: the loading flag is cleared on the success path
\* only (no finally block).
CatchOnly(message) ==
    /\ error' = Str(message)
    /\ UNCHANGED isLoading

\* catch (err) { setError(err.message) } followed by the finally block.
CatchAndFinally(message) ==
    /\ error' = Str(message)
    /\ Finally

\* await fetch(...) rejects: the network failed.
FetchRejected(i) ==
    /\ ~alertOpen
    /\ requests[i].pc = "fetch"
    /\ CatchAndFinally(NetworkErrorMessage)
    /\ requests' = Remove(requests, i)
    /\ lastOp' = [op |-> "settled", outcome |-> "networkFailure",
                  before |-> requests[i].before]
    /\ UNCHANGED <<viewState, popupInfo, analysisResult, file, alertOpen, visVars, mapVars, calls>>

\* await fetch(...) resolves with a response; handleAnalysis goes on to
\* await response.json() on either branch of if (!response.ok).
FetchResolved(i, ok) ==
    /\ ~alertOpen
    /\ requests[i].pc = "fetch"
    /\ requests' = [requests EXCEPT ![i] =
                       [pc |-> "json", ok |-> ok, before |-> requests[i].before]]
    /\ lastOp' = [op |-> "response", ok |-> ok]
    /\ UNCHANGED <<viewState, popupInfo, analysisResult, isLoading, error, file,
                   alertOpen, visVars, mapVars, calls>>

\* await response.json() rejects: the body is not JSON.
JsonRejected(i) ==
    /\ ~alertOpen
    /\ requests[i].pc = "json"
    /\ CatchAndFinally(ParseErrorMessage)
    /\ requests' = Remove(requests, i)
    /\ lastOp' = [op |-> "settled", outcome |-> "unparsable", ok |-> requests[i].ok,
                  before |-> requests[i].before]
    /\ UNCHANGED <<viewState, popupInfo, analysisResult, file, alertOpen, visVars, mapVars, calls>>

\* Mutant of ErrorMessage: the details member is ignored.
ErrorMessageGenericOnly(errData) ==
    IF Throws(errData) THEN Str(TypeErrorMessage) ELSE Str(GenericMessage)

\* throw new Error(errData.details || 'Backend analysis failed'): the message
\* caught, or the TypeError's when errData is null.
ErrorMessage(errData) ==
    IF Throws(errData) THEN Str(TypeErrorMessage)
    ELSE OrElse(Get(errData, "details"), Str(GenericMessage))

\* results.geospatial_data[key].features || []: an array, or a throw.
FeaturesOrEmpty(results, key) ==
    IF Throws(results) THEN [thrown |-> TRUE]
    ELSE LET gd == Get(results, "geospatial_data")
         IN IF Throws(gd) THEN [thrown |-> TRUE]
            ELSE LET c == Get(gd, key)
                 IN IF Throws(c) THEN [thrown |-> TRUE]
                    ELSE [thrown |-> FALSE,
                          value |-> OrElse(Get(c, "features"), Arr(<<>>)).e]

\* Mutant of AllFeatures: legal features first.
AllFeaturesLegalFirst(results) ==
    LET illegal == FeaturesOrEmpty(results, "illegal_polygons")
        legal == FeaturesOrEmpty(results, "legal_polygons")
    IN IF illegal.thrown \/ legal.thrown THEN [thrown |-> TRUE]
       ELSE [thrown |-> FALSE, value |-> legal.value \o illegal.value]

\* const allFeatures = [...illegal features, ...legal features]
AllFeatures(results) ==
    LET illegal == FeaturesOrEmpty(results, "illegal_polygons")
        legal == FeaturesOrEmpty(results, "legal_polygons")
    IN IF illegal.thrown \/ legal.thrown THEN [thrown |-> TRUE]
       ELSE [thrown |-> FALSE, value |-> illegal.value \o legal.value]

\* allFeatures[0].geometry.coordinates[0][0]
FirstCoord(feature) ==
    IF Throws(feature) THEN [thrown |-> TRUE]
    ELSE LET geometry == Get(feature, "geometry")
         IN IF Throws(geometry) THEN [thrown |-> TRUE]
            ELSE LET coordinates == Get(geometry, "coordinates")
                 IN IF Throws(coordinates) THEN [thrown |-> TRUE]
                    ELSE LET ring == At(coordinates, 0)
                         IN IF Throws(ring) THEN [thrown |-> TRUE]
                            ELSE [thrown |-> FALSE, value |-> At(ring, 0)]

\* setViewState(prev => ({...prev, longitude, latitude, zoom: 12,
\* transitionDuration: 2000}))
Recenter(prev, firstCoord) ==
    Spread(prev, [longitude |-> At(firstCoord, 0).v, latitude |-> At(firstCoord, 1).v,
                  zoom |-> AnalysisZoom, transitionDuration |-> AnalysisTransition])

\* Mutant of Success: the try block has no catch, a TypeError of the reads
\* leaves error alone.
SuccessNoCatch(results) ==
    LET all == AllFeatures(results)
        first == IF all.thrown \/ all.value = <<>> THEN [thrown |-> all.thrown]
                 ELSE FirstCoord(all.value[1])
    IN /\ analysisResult' = results
       /\ VisualizerFor(results)
       /\ Finally
       /\ UNCHANGED error
       /\ viewState' = IF all.thrown \/ first.thrown \/ all.value = <<>> THEN viewState
                       ELSE Recenter(viewState, first.value)

\* The try block after a 2xx response body was parsed, with catch and finally.
Success(results) ==
    LET all == AllFeatures(results)
        first == IF all.thrown \/ all.value = <<>> THEN [thrown |-> all.thrown]
                 ELSE FirstCoord(all.value[1])
    IN /\ analysisResult' = results
       /\ VisualizerFor(results)
       /\ IF all.thrown \/ first.thrown
          THEN CatchAndFinally(TypeErrorMessage) /\ UNCHANGED viewState
          ELSE /\ Finally
               /\ UNCHANGED error
               /\ viewState' = IF all.value = <<>> THEN viewState
                               ELSE Recenter(viewState, first.value)

\* The try block after a non-2xx response body was parsed: the throw, the
\* catch and the finally.
Failure(errData) ==
    /\ error' = ErrorMessage(errData)
    /\ Finally
    /\ UNCHANGED <<viewState, analysisResult, visVars, mapVars, calls>>

\* await response.json() resolves with the parsed body.
JsonResolved(i, body) ==
    /\ ~alertOpen
    /\ requests[i].pc = "json"
    /\ IF requests[i].ok THEN Success(body) ELSE Failure(body)
    /\ requests' = Remove(requests, i)
    /\ lastOp' = [op |-> "settled", outcome |-> "body", ok |-> requests[i].ok,
                  body |-> body, before |-> requests[i].before]
    /\ UNCHANGED <<popupInfo, file, alertOpen, mapVars, calls>>

\* The user picks a file in <input type="file">, or clears the choice.
SelectFile(f) ==
    /\ ~alertOpen
    /\ file' = f
    /\ lastOp' = [op |-> "selectFile"]
    /\ UNCHANGED <<viewState, popupInfo, analysisResult, isLoading, error, requests,
                   alertOpen, visVars, mapVars, calls>>

\* onMove={evt => setViewState(evt.viewState)}
onMove(evtViewState) ==
    /\ ~alertOpen
    /\ viewState' = evtViewState
    /\ lastOp' = [op |-> "onMove"]
    /\ UNCHANGED <<popupInfo, appVars, visVars, mapVars, calls>>

\* The features the map can report under a click: those of the registered
\* sources (interactiveLayerIds are the two 2d layers).
RenderedFeatures ==
    UNION {{s.data.f.features.e[i] : i \in 1..Len(s.data.f.features.e)} : s \in sources}

\* Mutant of handleMapClickApp: a click that hits no feature closes the popup.
handleMapClickAppClosesOnMiss(e) ==
    /\ ~alertOpen
    /\ IF Truthy(e.features) /\ Len(e.features.e) > 0
       THEN popupInfo' = Obj([lngLat |-> e.lngLat,
                              properties |-> Get(e.features.e[1], "properties")])
       ELSE popupInfo' = Null
    /\ lastOp' = [op |-> "handleMapClick", hit |-> Len(e.features.e) > 0,
                  e |-> e, prev |-> popupInfo]
    /\ UNCHANGED <<viewState, appVars, visVars, mapVars, calls>>

\* App.handleMapClick
handleMapClickApp(e) ==
    /\ ~alertOpen
    /\ IF Truthy(e.features) /\ Len(e.features.e) > 0
       THEN popupInfo' = Obj([lngLat |-> e.lngLat,
                              properties |-> Get(e.features.e[1], "properties")])
       ELSE UNCHANGED popupInfo
    /\ lastOp' = [op |-> "handleMapClick", hit |-> Len(e.features.e) > 0,
                  e |-> e, prev |-> popupInfo]
    /\ UNCHANGED <<viewState, appVars, visVars, mapVars, calls>>

\* <Popup onClose={() => setPopupInfo(null)}>, rendered while popupInfo is set.
onClose ==
    /\ ~alertOpen
    /\ Truthy(popupInfo)
    /\ popupInfo' = Null
    /\ lastOp' = [op |-> "onClose"]
    /\ UNCHANGED <<viewState, appVars, visVars, mapVars, calls>>

----------------------------------------------------------------------------
(* App: inputs *)

FileInputs == {Undefined, Str("boundary.zip")}

FeatureNoGeometry ==
    Obj([type |-> Str("Feature"), properties |-> Obj([license |-> Str("L-9")])])

Operation == Obj([avg_depth_m |-> Num(31), volume_m3 |-> Num(12000)])

\* 2xx bodies: results with illegal and legal features, with legal features
\* only (empty, or no, illegal features array), with no features, and
\* malformed ones (a first feature without geometry, no geospatial_data, no
\* illegal_polygons, the JSON null).
ResultBodies ==
    {AnalysisData(FeatureCollection(<<FeatureB>>), FeatureCollection(<<FeatureA, FeatureC>>),
                  Arr(<<Operation>>)),
     AnalysisData(FeatureCollection(<<FeatureC>>), FeatureCollection(<<>>), Arr(<<>>)),
     AnalysisData(FeatureCollection(<<FeatureB>>),
                  Obj([type |-> Str("FeatureCollection")]), Undefined),
     AnalysisData(FeatureCollection(<<>>), FeatureCollection(<<>>), Arr(<<>>)),
     AnalysisData(FeatureCollection(<<FeatureB>>), FeatureCollection(<<FeatureNoGeometry>>),
                  Arr(<<Operation>>)),
     AnalysisData(FeatureCollection(<<FeatureB>>), Undefined, Arr(<<>>)),
     Obj([illegal_operations |-> Arr(<<>>)]),
     Null}

\* Non-2xx bodies: details given, details empty, no details member, JSON null.
ErrorBodies ==
    {Obj([details |-> Str("invalid shapefile")]),
     Obj([details |-> Str("")]),
     Obj([error |-> Str("Unprocessable Entity")]),
     Null}

Bodies(ok) == IF ok THEN ResultBodies ELSE ErrorBodies

MoveInputs ==
    {[longitude |-> 8600, latitude |-> 2400, zoom |-> 110, pitch |-> 0, bearing |-> 0]}

ClickPoints == {Obj([lng |-> Num(8651), lat |-> Num(2381)])}

ClickEvents ==
    {[features |-> Arr(<<>>), lngLat |-> p] : p \in ClickPoints}
    \cup {[features |-> Arr(<<f>>), lngLat |-> p] : f \in RenderedFeatures, p \in ClickPoints}

----------------------------------------------------------------------------
(* App: specification *)

InitApp ==
    /\ AppInit
    /\ VisualizerUnmounted
    /\ MapPageModes
    /\ lastOp = [op |-> "mount"]

Settle ==
    \E i \in DOMAIN requests :
        \/ FetchRejected(i)
        \/ \E ok \in BOOLEAN : FetchResolved(i, ok)
        \/ JsonRejected(i)
        \/ \E body \in Bodies(requests[i].pc = "json" /\ requests[i].ok) :
               JsonResolved(i, body)

NextApp ==
    \/ AnalyzeClick
    \/ AlertDismiss
    \/ Settle
    \/ \E f \in FileInputs : SelectFile(f)
    \/ \E v \in MoveInputs : onMove(v)
    \/ \E e \in ClickEvents : handleMapClickApp(e)
    \/ onClose

SpecApp == InitApp /\ [][NextApp]_vars

\* The network settles every request (with a response or a failure) and a
\* body is read or fails to parse; the user closes an alert.
FairSpecApp == SpecApp /\ WF_vars(Settle) /\ WF_vars(AlertDismiss)

----------------------------------------------------------------------------
(* Claims about App (SpecApp, FairSpecApp) *)

\* The request that just settled did so with a parsed body, on the 2xx path
\* (ok) or on the non-2xx path.
SettledWithBody(ok) ==
    /\ lastOp.op = "settled"
    /\ lastOp.outcome = "body"
    /\ lastOp.ok = ok

\* The features array of a collection of a well-formed result.
FeatureList(c) ==
    IF c.t = "object" /\ "features" \in DOMAIN c.f /\ c.f.features.t = "array"
    THEN c.f.features.e
    ELSE <<>>

\* The body has geospatial_data with both collections.
HasCollections(body) ==
    /\ body.t = "object"
    /\ "geospatial_data" \in DOMAIN body.f
    /\ body.f.geospatial_data.t = "object"
    /\ {"illegal_polygons", "legal_polygons"} \subseteq DOMAIN body.f.geospatial_data.f
    /\ body.f.geospatial_data.f.illegal_polygons.t = "object"
    /\ body.f.geospatial_data.f.legal_polygons.t = "object"

\* Illegal features followed by legal features.
IllegalThenLegal(body) ==
    FeatureList(body.f.geospatial_data.f.illegal_polygons)
        \o FeatureList(body.f.geospatial_data.f.legal_polygons)

HasRing(feature) ==
    /\ feature.t = "object"
    /\ "geometry" \in DOMAIN feature.f
    /\ feature.f.geometry.t = "object"
    /\ "coordinates" \in DOMAIN feature.f.geometry.f

\* The first coordinate of the first ring of a feature, as <<lon, lat>>.
FirstOfFirstRing(feature) ==
    LET c == feature.f.geometry.f.coordinates.e[1].e[1]
    IN <<c.e[1].v, c.e[2].v>>

\* C5: after a successful response with at least one feature, analysisResult
\* is the parsed response and the camera is on the first coordinate of the
\* first ring of the first feature of illegal-then-legal, at zoom 12.
C5_RecenterOnFirstFeature ==
    (/\ SettledWithBody(TRUE)
     /\ HasCollections(lastOp.body)
     /\ IllegalThenLegal(lastOp.body) # <<>>
     /\ HasRing(IllegalThenLegal(lastOp.body)[1]))
    => /\ analysisResult = lastOp.body
       /\ viewState.longitude = FirstOfFirstRing(IllegalThenLegal(lastOp.body)[1])[1]
       /\ viewState.latitude = FirstOfFirstRing(IllegalThenLegal(lastOp.body)[1])[2]
       /\ viewState.zoom = 120

\* C5 witness: a result with illegal and legal features has settled and the
\* camera is on the illegal feature's [86.5, 23.8].
C5_Witness ==
    /\ SettledWithBody(TRUE)
    /\ HasCollections(lastOp.body)
    /\ FeatureList(lastOp.body.f.geospatial_data.f.illegal_polygons) # <<>>
    /\ FeatureList(lastOp.body.f.geospatial_data.f.legal_polygons) # <<>>
    /\ HasRing(IllegalThenLegal(lastOp.body)[1])
    /\ viewState.longitude = 8650
    /\ viewState.latitude = 2380
    /\ viewState.zoom = 120

\* The parsed error body carries a details member that is a non-empty string.
HasDetails(body) ==
    /\ body.t = "object"
    /\ "details" \in DOMAIN body.f
    /\ body.f.details.t = "string"
    /\ body.f.details.v # ""

\* C6: after a non-2xx response whose JSON body has a non-empty details
\* string, error is exactly that string and analysisResult is null, whatever
\* analysisResult held before the request.
C6_DetailsSurfaced ==
    (SettledWithBody(FALSE) /\ HasDetails(lastOp.body))
    => /\ error = lastOp.body.f.details
       /\ analysisResult = Null

\* C6 witness: the 422 of the spec, on a request made while a result was held.
C6_Witness ==
    /\ SettledWithBody(FALSE)
    /\ HasDetails(lastOp.body)
    /\ lastOp.before # Null
    /\ error = Str("invalid shapefile")
    /\ analysisResult = Null

HasNoDetails(body) == body.t = "object" /\ "details" \notin DOMAIN body.f

\* C7 as stated: after a non-2xx response whose body cannot be parsed, or
\* parses to an object with no details member, error is the generic message.
C7_GenericFallback ==
    (/\ lastOp.op = "settled"
     /\ lastOp.outcome \in {"unparsable", "body"}
     /\ ~lastOp.ok
     /\ lastOp.outcome = "body" => HasNoDetails(lastOp.body))
    => error = Str("Backend analysis failed")

\* C8: a started request always ends with isLoading false: the flag is false
\* right after every way a request can settle, and a raised flag is
\* eventually cleared.
C8_LoadingCleared ==
    /\ [](lastOp.op = "settled" => ~isLoading)
    /\ (isLoading ~> ~isLoading)

\* C8 witness: a 2xx response with malformed data has settled through the
\* catch block, and the flag is down.
C8_Witness ==
    /\ SettledWithBody(TRUE)
    /\ error = Str(TypeErrorMessage)
    /\ analysisResult = lastOp.body
    /\ ~isLoading

\* C9: handleAnalysis with no file selected raises the alert, sends no
\* request and leaves isLoading, error, analysisResult and viewState alone.
C9_NoFileAlert ==
    [][(lastOp'.op = "handleAnalysis" /\ ~Truthy(file))
        => /\ alertOpen'
           /\ UNCHANGED <<isLoading, error, analysisResult, viewState, requests>>]_vars

\* C9 witness: the alert is up on a click made with no file while a result
\* was held, and the result is still there.
C9_Witness ==
    /\ alertOpen
    /\ lastOp.op = "handleAnalysis"
    /\ lastOp.outcome = "alert"
    /\ ~Truthy(file)
    /\ Truthy(analysisResult)
    /\ requests = <<>>

\* C10 as stated: invocations are not guarded, the Analyze button takes a
\* click while a request is in flight.
C10_Unguarded == requests # <<>> => ~AnalyzeDisabled

\* C10 amended: the Analyze button is disabled while isLoading is true, which
\* it is while a request is in flight, so at most one request is in flight.
C10_OneInFlight ==
    /\ Len(requests) <= 1
    /\ requests # <<>> => AnalyzeDisabled

\* C10 witness: one request is awaiting its body and the button is disabled.
C10_Witness ==
    /\ Len(requests) = 1
    /\ requests[1].pc = "json"
    /\ AnalyzeDisabled

\* The step just taken started a request (handleAnalysis with a file).
StartedAnalysis == lastOp'.op = "handleAnalysis" /\ lastOp'.outcome = "started"

\* The step just taken stored the parsed body of a 2xx response.
StoredResult ==
    /\ lastOp'.op = "settled"
    /\ lastOp'.outcome = "body"
    /\ lastOp'.ok
    /\ analysisResult' = lastOp'.body

\* C11 as stated: a stored analysisResult changes only by being replaced with
\* the result of a later analysis; starting a later analysis does not clear it.
C11_OnlyReplaced ==
    [][(Truthy(analysisResult) /\ analysisResult' # analysisResult) => StoredResult]_vars

\* C11 amended: analysisResult changes only when a request starts, which sets
\* it to null, or when the body of a 2xx response is stored; every start of a
\* request sets it to null.
C11_ClearedOnStartOrReplaced ==
    [][/\ StartedAnalysis => analysisResult' = Null
       /\ analysisResult' # analysisResult
            => (StartedAnalysis /\ analysisResult' = Null) \/ StoredResult]_vars

\* C11 witness: a request was started while a result was held, and the
\* result is gone while the request is in flight.
C11_Witness ==
    /\ lastOp.op = "handleAnalysis"
    /\ lastOp.outcome = "started"
    /\ Len(requests) = 1
    /\ Truthy(requests[1].before)
    /\ analysisResult = Null

\* A 2xx body with malformed data: geospatial_data or one of its collections
\* is missing, or the first feature has no geometry.coordinates.
Malformed(body) ==
    \/ ~HasCollections(body)
    \/ /\ IllegalThenLegal(body) # <<>>
       /\ ~HasRing(IllegalThenLegal(body)[1])

C17_OnePopup ==
    /\ popupInfo = Null
         \/ (popupInfo.t = "object" /\ DOMAIN popupInfo.f = {"lngLat", "properties"})
    /\ (lastOp.op = "handleMapClick" /\ lastOp.hit)
         => /\ popupInfo.f.lngLat = lastOp.e.lngLat
            /\ popupInfo.f.properties = lastOp.e.features.e[1].f.properties
    /\ (lastOp.op = "handleMapClick" /\ ~lastOp.hit) => popupInfo = lastOp.prev
    /\ lastOp.op = "onClose" => popupInfo = Null

\* C17 witness: a click on a feature replaced the popup of another feature.
C17_Witness ==
    /\ lastOp.op = "handleMapClick"
    /\ lastOp.hit
    /\ lastOp.prev # Null
    /\ lastOp.prev # popupInfo
    /\ popupInfo.f.properties = lastOp.e.features.e[1].f.properties

\* C21: isLoading is true exactly while a request is in flight, from the
\* start of handleAnalysis with a file until its response or failure has been
\* dealt with.
C21_LoadingIffInFlight == isLoading <=> requests # <<>>

\* C21 witness: a request has just been sent and the flag is up.
C21_Witness ==
    /\ lastOp.op = "handleAnalysis"
    /\ lastOp.outcome = "started"
    /\ Len(requests) = 1
    /\ requests[1].pc = "fetch"
    /\ isLoading

\* The steps of handleAnalysis: its start or alert, the return from the
\* alert, the response and the settling of the request.
AnalysisSteps == {"handleAnalysis", "alertDismissed", "response", "settled"}

\* C22: no step of handleAnalysis changes popupInfo, so a popup stays open
\* with its properties when the result it came from is cleared or replaced.
C22_PopupKept ==
    [][lastOp'.op \in AnalysisSteps => popupInfo' = popupInfo]_vars

\* C22 witness: a popup is open on a feature of a result that the start of a
\* later analysis has cleared.
C22_Witness ==
    /\ lastOp.op = "handleAnalysis"
    /\ lastOp.outcome = "started"
    /\ Truthy(requests[1].before)
    /\ analysisResult = Null
    /\ sources = {}
    /\ Truthy(popupInfo)
    /\ Truthy(Get(popupInfo, "properties"))

----------------------------------------------------------------------------
(* MapPage: the view-state controller *)

MaxTimers == 2
MaxTurns == 1

ToggleTimeout == 1500
FlyTimeout == 3000
ViewModeTimeout == 2000
OrbitDuration == 15000
MaxPitch == 85

RECURSIVE Gcd(_, _)
Gcd(a, b) == IF b = 0 THEN a ELSE Gcd(b, a % b)

\* Time advances in steps of the greatest common divisor of the setTimeout
\* delays, so that every delay is a whole number of steps.
TickMs == Gcd(Gcd(ToggleTimeout, ViewModeTimeout), FlyTimeout)

\* Mutant of SetTimeout: setting a timer cancels the pending ones.
SetTimeoutCancelsPending(ms, setsProgress) ==
    <<[due |-> ms \div TickMs, progress |-> setsProgress]>>

\* setTimeout(callback, ms): the callbacks all clear isAnimating; those of
\* flyToMine and setViewMode also set animationProgress to 1.
SetTimeout(ms, setsProgress) ==
    Append(timers, [due |-> ms \div TickMs, progress |-> setsProgress])

MapPageInit ==
    /\ viewState = [longitude |-> 7898, latitude |-> 2058, zoom |-> 100,
                    pitch |-> 0, bearing |-> 0]
    /\ popupInfo = Null
    /\ MapPageModes

\* Mutant of toggle3DMode: switching to 3D leaves currentViewMode alone.
toggle3DModeKeepsMode ==
    LET enable3D == ~is3DEnabled
    IN /\ is3DEnabled' = enable3D
       /\ isAnimating' = TRUE
       /\ IF enable3D
          THEN /\ viewState' = Spread(viewState,
                      [pitch |-> 45, bearing |-> -30, zoom |-> 112,
                       transitionDuration |-> 1500, transitionEasing |-> "1-(1-t)^2"])
               /\ UNCHANGED currentViewMode
          ELSE /\ viewState' = Spread(viewState,
                      [pitch |-> 0, bearing |-> 0, zoom |-> 105,
                       transitionDuration |-> 1500, transitionEasing |-> "1-(1-t)^2"])
               /\ currentViewMode' = "top-down"
       /\ timers' = SetTimeout(ToggleTimeout, FALSE)
       /\ UNCHANGED <<animationProgress, orbits, popupInfo>>

\* toggle3DMode
toggle3DMode ==
    LET enable3D == ~is3DEnabled
    IN /\ is3DEnabled' = enable3D
       /\ isAnimating' = TRUE
       /\ IF enable3D
          THEN /\ viewState' = Spread(viewState,
                      [pitch |-> 45, bearing |-> -30, zoom |-> 112,
                       transitionDuration |-> 1500, transitionEasing |-> "1-(1-t)^2"])
               /\ currentViewMode' = "perspective"
          ELSE /\ viewState' = Spread(viewState,
                      [pitch |-> 0, bearing |-> 0, zoom |-> 105,
                       transitionDuration |-> 1500, transitionEasing |-> "1-(1-t)^2"])
               /\ currentViewMode' = "top-down"
       /\ timers' = SetTimeout(ToggleTimeout, FALSE)
       /\ UNCHANGED <<animationProgress, orbits, popupInfo>>

\* Mutant of flyToMine: the target pitch does not depend on is3DEnabled.
flyToMineTilted(mineCoords, properties) ==
    LET targetPitch == IF currentViewMode = "top-down" THEN 45 ELSE 60
    IN /\ isAnimating' = TRUE
       /\ animationProgress' = 0
       /\ viewState' = [longitude |-> Get(mineCoords, "lng").v,
                        latitude |-> Get(mineCoords, "lat").v,
                        zoom |-> IF Get(properties, "status") = Str("illegal")
                                 THEN 145 ELSE 135,
                        pitch |-> targetPitch,
                        bearing |-> IF is3DEnabled THEN -30 ELSE 0,
                        transitionDuration |-> 3000,
                        transitionEasing |-> "1-(1-t)^3, setAnimationProgress"]
       /\ timers' = SetTimeout(FlyTimeout, TRUE)
       /\ UNCHANGED <<currentViewMode, is3DEnabled, orbits>>

\* flyToMine(mineCoords, properties), without the popup (handleMapClick sets
\* it, the Re-fly button leaves it).
flyToMine(mineCoords, properties) ==
    LET targetPitch == IF is3DEnabled
                       THEN (IF currentViewMode = "top-down" THEN 45 ELSE 60)
                       ELSE 0
    IN /\ isAnimating' = TRUE
       /\ animationProgress' = 0
       /\ viewState' = [longitude |-> Get(mineCoords, "lng").v,
                        latitude |-> Get(mineCoords, "lat").v,
                        zoom |-> IF Get(properties, "status") = Str("illegal")
                                 THEN 145 ELSE 135,
                        pitch |-> targetPitch,
                        bearing |-> IF is3DEnabled THEN -30 ELSE 0,
                        transitionDuration |-> 3000,
                        transitionEasing |-> "1-(1-t)^3, setAnimationProgress"]
       /\ timers' = SetTimeout(FlyTimeout, TRUE)
       /\ UNCHANGED <<currentViewMode, is3DEnabled, orbits>>

ViewModes == {"top-down", "perspective", "cross-section"}

\* Mutant of presets: every mode gets the perspective preset.
presetsPerspectiveOnly(mode) ==
    [pitch |-> 60, bearing |-> -30, zoom |-> 112, transitionDuration |-> 1800]

presets(mode) ==
    CASE mode = "top-down" ->
           [pitch |-> 0, bearing |-> 0, zoom |-> 105, transitionDuration |-> 2000]
      [] mode = "perspective" ->
           [pitch |-> 60, bearing |-> -30, zoom |-> 112, transitionDuration |-> 1800]
      [] mode = "cross-section" ->
           [pitch |-> 75, bearing |-> -45, zoom |-> 125, transitionDuration |-> 2200]

\* setViewMode past its early return: the preset is applied.
ApplyViewMode(mode) ==
    /\ currentViewMode' = mode
    /\ isAnimating' = TRUE
    /\ animationProgress' = 0
    /\ viewState' = Spread(Spread(viewState, presets(mode)),
                           [transitionEasing |-> "1-(1-t)^2, setAnimationProgress"])
    /\ timers' = SetTimeout(ViewModeTimeout, TRUE)
    /\ UNCHANGED <<is3DEnabled, orbits, popupInfo>>

\* Mutant of setViewMode: no early return, the preset is applied in 2D too.
setViewModeNoEarlyReturn(mode) == ApplyViewMode(mode)

\* setViewMode(mode)
setViewMode(mode) ==
    IF ~is3DEnabled THEN toggle3DMode ELSE ApplyViewMode(mode)

\* The bearing of one frame of the orbital loop, elapsed given in ticks.
OrbitBearing(elapsed) ==
    (360 * ((elapsed * TickMs) % OrbitDuration)) \div OrbitDuration

\* startOrbitalRotation: the flag is set and animate() runs once, at elapsed
\* 0; it asks for another frame when the isAnimating and is3DEnabled of the
\* render that created the callback hold.
startOrbitalRotation ==
    IF ~is3DEnabled
    THEN UNCHANGED <<viewState, popupInfo, mapVars>>
    ELSE /\ isAnimating' = TRUE
         /\ viewState' = Spread(viewState, [bearing |-> OrbitBearing(0),
                                            transitionDuration |-> 0])
         /\ orbits' = IF isAnimating /\ is3DEnabled
                      THEN Append(orbits, [elapsed |-> 0])
                      ELSE orbits
         /\ UNCHANGED <<currentViewMode, animationProgress, is3DEnabled, timers,
                        popupInfo>>

\* A later frame of a running loop: animate() called by requestAnimationFrame.
\* The loop's isAnimating and is3DEnabled are those it was created with, so
\* it asks for the next frame again.
animate(i) ==
    /\ viewState' = Spread(viewState, [bearing |-> OrbitBearing(orbits[i].elapsed),
                                       transitionDuration |-> 0])
    /\ UNCHANGED <<popupInfo, mapVars>>

\* stopOrbitalRotation
stopOrbitalRotation ==
    /\ isAnimating' = FALSE
    /\ UNCHANGED <<viewState, popupInfo, currentViewMode, animationProgress,
                   is3DEnabled, timers, orbits>>

\* MapPage.handleMapClick
handleMapClick(e) ==
    IF Truthy(e.features) /\ Len(e.features.e) > 0
    THEN /\ popupInfo' = Obj([lngLat |-> e.lngLat,
                              properties |-> Get(e.features.e[1], "properties")])
         /\ flyToMine(e.lngLat, Get(e.features.e[1], "properties"))
    ELSE UNCHANGED <<viewState, popupInfo, mapVars>>

\* Mutant of Timeout: the callback leaves isAnimating alone.
TimeoutKeepsFlag(i) ==
    /\ timers[i].due = 0
    /\ animationProgress' = IF timers[i].progress THEN 100 ELSE animationProgress
    /\ timers' = Remove(timers, i)
    /\ UNCHANGED <<viewState, popupInfo, currentViewMode, isAnimating, is3DEnabled,
                   orbits>>

\* A setTimeout callback runs.
Timeout(i) ==
    /\ timers[i].due = 0
    /\ isAnimating' = FALSE
    /\ animationProgress' = IF timers[i].progress THEN 100 ELSE animationProgress
    /\ timers' = Remove(timers, i)
    /\ UNCHANGED <<viewState, popupInfo, currentViewMode, is3DEnabled, orbits>>

\* Time passes by one tick; a callback that is due runs first.
Tick ==
    /\ timers # <<>> \/ orbits # <<>>
    /\ \A i \in DOMAIN timers : timers[i].due > 0
    /\ timers' = [i \in DOMAIN timers |-> [timers[i] EXCEPT !.due = @ - 1]]
    /\ orbits' = [i \in DOMAIN orbits |->
                    [elapsed |-> (orbits[i].elapsed + 1) % (OrbitDuration \div TickMs)]]
    /\ UNCHANGED <<viewState, popupInfo, currentViewMode, isAnimating,
                   animationProgress, is3DEnabled>>

\* The rotate buttons: bearing - 45 and bearing + 45.
Rotate(delta) ==
    /\ viewState' = Spread(viewState, [bearing |-> viewState.bearing + delta,
                                       transitionDuration |-> 800,
                                       transitionEasing |-> "t*(2-t)"])
    /\ UNCHANGED <<popupInfo, mapVars>>

\* Mutant of TiltUp: no cap.
TiltUpUncapped ==
    /\ viewState' = Spread(viewState, [pitch |-> viewState.pitch + 15,
                                       transitionDuration |-> 600,
                                       transitionEasing |-> "t*(2-t)"])
    /\ UNCHANGED <<popupInfo, mapVars>>

Min(a, b) == IF a < b THEN a ELSE b
Max(a, b) == IF a > b THEN a ELSE b

\* The tilt buttons: Math.min(pitch + 15, 85) and Math.max(pitch - 15, 0).
TiltUp ==
    /\ viewState' = Spread(viewState, [pitch |-> Min(viewState.pitch + 15, MaxPitch),
                                       transitionDuration |-> 600,
                                       transitionEasing |-> "t*(2-t)"])
    /\ UNCHANGED <<popupInfo, mapVars>>

TiltDown ==
    /\ viewState' = Spread(viewState, [pitch |-> Max(viewState.pitch - 15, 0),
                                       transitionDuration |-> 600,
                                       transitionEasing |-> "t*(2-t)"])
    /\ UNCHANGED <<popupInfo, mapVars>>

\* MapPage: onMove={evt => setViewState(evt.viewState)}
onMoveMap(evtViewState) ==
    /\ viewState' = evtViewState
    /\ UNCHANGED <<popupInfo, mapVars>>

\* MapPage: <Popup onClose={() => setPopupInfo(null)}>
onCloseMap ==
    /\ popupInfo' = Null
    /\ UNCHANGED <<viewState, mapVars>>

\* MapPage leaves the state of App and of the visualizer alone.
Idle == UNCHANGED <<appVars, visVars>>

MaxCalls == 2

\* One more callback is called directly.
Called == calls < MaxCalls /\ calls' = calls + 1

----------------------------------------------------------------------------
(* MapPage: inputs *)

MineProperties ==
    {Obj([name |-> Str("Pit 1"), status |-> Str("illegal"),
          violation |-> Str("illegal excavation")]),
     Obj([name |-> Str("Area 1"), status |-> Str("legal")])}

\* Click events as the handler can be given them: on a feature, or on none.
HandlerClickEvents ==
    {[features |-> Arr(<<>>), lngLat |-> p] : p \in ClickPoints}
    \cup {[features |-> Arr(<<Obj([properties |-> props])>>), lngLat |-> p] :
              props \in MineProperties, p \in ClickPoints}

\* Click events of the rendered page: MapPage renders <MiningPitVisualizer />
\* with no data, which registers no layer, so no click hits a feature.
PageClickEvents ==
    {[features |-> fs, lngLat |-> p] : fs \in {Undefined, Arr(<<>>)}, p \in ClickPoints}

----------------------------------------------------------------------------
(* MapPage: the callbacks called directly, in any state *)

InitHandlers ==
    /\ MapPageInit
    /\ analysisResult = Null /\ isLoading = FALSE /\ error = Null
    /\ file = Undefined /\ requests = <<>> /\ alertOpen = FALSE
    /\ VisualizerUnmounted
    /\ lastOp = [op |-> "mount"]

CallToggle3DMode ==
    /\ Called
    /\ toggle3DMode
    /\ lastOp' = [op |-> "toggle3DMode", enable3D |-> ~is3DEnabled,
                  was |-> currentViewMode]
    /\ Idle

CallSetViewMode(mode) ==
    /\ Called
    /\ setViewMode(mode)
    /\ lastOp' = [op |-> "setViewMode", mode |-> mode, was3D |-> is3DEnabled]
    /\ Idle

CallFlyToMine(mineCoords, properties) ==
    /\ Called
    /\ flyToMine(mineCoords, properties)
    /\ lastOp' = [op |-> "flyToMine"]
    /\ UNCHANGED popupInfo
    /\ Idle

CallStartOrbitalRotation ==
    /\ Called
    /\ startOrbitalRotation
    /\ lastOp' = [op |-> "startOrbitalRotation", wasAnimating |-> isAnimating]
    /\ Idle

CallStopOrbitalRotation ==
    /\ Called
    /\ stopOrbitalRotation
    /\ lastOp' = [op |-> "stopOrbitalRotation"]
    /\ Idle

CallHandleMapClick(e) ==
    /\ Called
    /\ handleMapClick(e)
    /\ lastOp' = [op |-> "handleMapClick", hit |-> Len(e.features.e) > 0]
    /\ Idle

\* The onClick callbacks of the rotate and tilt buttons, called directly.  The
\* tilt callbacks exist in the renders with is3DEnabled only.
CallRotate(delta) ==
    /\ Called
    /\ Rotate(delta)
    /\ lastOp' = [op |-> "rotate", delta |-> delta]
    /\ Idle

CallTiltUp ==
    /\ is3DEnabled
    /\ Called
    /\ TiltUp
    /\ lastOp' = [op |-> "tiltUp"]
    /\ Idle

CallTiltDown ==
    /\ is3DEnabled
    /\ Called
    /\ TiltDown
    /\ lastOp' = [op |-> "tiltDown"]
    /\ Idle

TimeoutFires ==
    \E i \in DOMAIN timers :
        /\ Timeout(i)
        /\ lastOp' = [op |-> "timeout", fired |-> i]
        /\ UNCHANGED calls
        /\ Idle

TimePasses ==
    /\ Tick
    /\ lastOp' = [op |-> "tick"]
    /\ UNCHANGED calls
    /\ Idle

Frame ==
    \E i \in DOMAIN orbits :
        /\ animate(i)
        /\ lastOp' = [op |-> "animate"]
        /\ UNCHANGED calls
        /\ Idle

NextHandlers ==
    \/ CallToggle3DMode
    \/ \E mode \in ViewModes : CallSetViewMode(mode)
    \/ \E p \in ClickPoints, props \in MineProperties : CallFlyToMine(p, props)
    \/ CallStartOrbitalRotation
    \/ CallStopOrbitalRotation
    \/ \E e \in HandlerClickEvents : CallHandleMapClick(e)
    \/ \E delta \in {-45, 45} : CallRotate(delta)
    \/ CallTiltUp
    \/ CallTiltDown
    \/ TimeoutFires
    \/ TimePasses
    \/ Frame

SpecHandlers == InitHandlers /\ [][NextHandlers]_vars

\* Time passes and a timer that is due runs its callback; the calls are the
\* user's and may never come.
FairSpecHandlers == SpecHandlers /\ WF_vars(TimePasses) /\ WF_vars(TimeoutFires)

----------------------------------------------------------------------------
(* MapPage: the rendered page, each control under its disabled and          *)
(* conditional-rendering conditions                                        *)

\* The 2D/3D button: disabled={isAnimating}.
ToggleClick ==
    /\ ~isAnimating
    /\ Len(timers) < MaxTimers
    /\ toggle3DMode
    /\ lastOp' = [op |-> "toggle3DMode", enable3D |-> ~is3DEnabled,
                  was |-> currentViewMode]
    /\ UNCHANGED calls
    /\ Idle

\* The three view buttons: rendered in 3D, disabled={isAnimating}.
ViewModeClick(mode) ==
    /\ is3DEnabled
    /\ ~isAnimating
    /\ Len(timers) < MaxTimers
    /\ setViewMode(mode)
    /\ lastOp' = [op |-> "setViewMode", mode |-> mode, was3D |-> is3DEnabled]
    /\ UNCHANGED calls
    /\ Idle

\* Reset View: setViewMode(is3DEnabled ? 'perspective' : 'top-down').
ResetViewClick ==
    /\ is3DEnabled
    /\ ~isAnimating
    /\ Len(timers) < MaxTimers
    /\ setViewMode(IF is3DEnabled THEN "perspective" ELSE "top-down")
    /\ lastOp' = [op |-> "resetView", was3D |-> is3DEnabled]
    /\ UNCHANGED calls
    /\ Idle

\* Rotate Left / Rotate Right: disabled={isAnimating}.
RotateClick(delta) ==
    /\ ~isAnimating
    /\ viewState.bearing + delta \in (-45 * MaxTurns)..(45 * MaxTurns)
    /\ Rotate(delta)
    /\ lastOp' = [op |-> "rotate", delta |-> delta]
    /\ UNCHANGED calls
    /\ Idle

\* Tilt Up / Tilt Down: rendered in 3D, disabled={isAnimating}.
TiltUpClick ==
    /\ is3DEnabled
    /\ ~isAnimating
    /\ TiltUp
    /\ lastOp' = [op |-> "tiltUp"]
    /\ UNCHANGED calls
    /\ Idle

TiltDownClick ==
    /\ is3DEnabled
    /\ ~isAnimating
    /\ TiltDown
    /\ lastOp' = [op |-> "tiltDown"]
    /\ UNCHANGED calls
    /\ Idle

\* Auto Orbit: rendered in 3D, onClick={isAnimating ? stopOrbitalRotation :
\* startOrbitalRotation}.  The start callback of a render in which isAnimating
\* is false asks for no second frame.
AutoOrbitClick ==
    /\ is3DEnabled
    /\ IF isAnimating
       THEN stopOrbitalRotation /\ lastOp' = [op |-> "stopOrbitalRotation"]
       ELSE /\ startOrbitalRotation
            /\ lastOp' = [op |-> "startOrbitalRotation", wasAnimating |-> isAnimating]
    /\ UNCHANGED calls
    /\ Idle

MapClick(e) ==
    /\ handleMapClick(e)
    /\ lastOp' = [op |-> "handleMapClick", hit |-> FALSE]
    /\ UNCHANGED calls
    /\ Idle

MapMove(evtViewState) ==
    /\ onMoveMap(evtViewState)
    /\ lastOp' = [op |-> "onMove"]
    /\ UNCHANGED calls
    /\ Idle

NextMapPage ==
    \/ ToggleClick
    \/ \E mode \in ViewModes : ViewModeClick(mode)
    \/ ResetViewClick
    \/ \E delta \in {-45, 45} : RotateClick(delta)
    \/ TiltUpClick
    \/ TiltDownClick
    \/ AutoOrbitClick
    \/ \E e \in PageClickEvents : MapClick(e)
    \/ \E v \in MoveInputs : MapMove(v)
    \/ TimeoutFires
    \/ TimePasses

SpecMapPage == InitHandlers /\ [][NextMapPage]_vars

----------------------------------------------------------------------------
(* Claims about MapPage (SpecHandlers, SpecMapPage) *)

\* The camera target of the view state: pitch, bearing, zoom, duration.
CameraTarget ==
    <<viewState.pitch, viewState.bearing, viewState.zoom, viewState.transitionDuration>>

\* The fixed preset of a view mode, as pitch, bearing, zoom (tenths), duration.
PresetTarget(mode) ==
    CASE mode = "top-down" -> <<0, 0, 105, 2000>>
      [] mode = "perspective" -> <<60, -30, 112, 1800>>
      [] mode = "cross-section" -> <<75, -45, 125, 2200>>

\* C3: setViewMode(m) called while is3DEnabled is false enables 3D and drops
\* the request: the camera gets the 2D-to-3D toggle's target and not the
\* preset of m, and currentViewMode is 'perspective' whatever m is.
C3_SetViewModeIn2D ==
    (lastOp.op = "setViewMode" /\ ~lastOp.was3D)
    => /\ is3DEnabled
       /\ CameraTarget # PresetTarget(lastOp.mode)
       /\ CameraTarget = <<45, -30, 112, 1500>>
       /\ currentViewMode = "perspective"

\* C3 witness: setViewMode('cross-section') was called in 2D.
C3_Witness ==
    /\ lastOp.op = "setViewMode"
    /\ ~lastOp.was3D
    /\ lastOp.mode = "cross-section"
    /\ is3DEnabled
    /\ currentViewMode = "perspective"
    /\ viewState.pitch = 45

\* C4 as stated: the 3D-to-2D toggle sets currentViewMode to 'top-down' and
\* the 2D-to-3D toggle leaves currentViewMode as it was.
C4_ToggleBackKeepsMode ==
    lastOp.op = "toggle3DMode"
    => IF lastOp.enable3D
       THEN is3DEnabled /\ currentViewMode = lastOp.was
       ELSE ~is3DEnabled /\ currentViewMode = "top-down"

\* C4 amended: the 3D-to-2D toggle sets currentViewMode to 'top-down' and
\* the 2D-to-3D toggle sets it to 'perspective'.
C4_ToggleBackToPerspective ==
    lastOp.op = "toggle3DMode"
    => IF lastOp.enable3D
       THEN is3DEnabled /\ currentViewMode = "perspective"
       ELSE ~is3DEnabled /\ currentViewMode = "top-down"

\* C4 witness: the page was toggled back to 3D from 2D, where the mode was
\* 'top-down'.
C4_Witness ==
    /\ lastOp.op = "toggle3DMode"
    /\ lastOp.enable3D
    /\ lastOp.was = "top-down"
    /\ is3DEnabled
    /\ currentViewMode = "perspective"

\* The handlers and controls that start a camera transition.
TransitionStarters ==
    {"toggle3DMode", "setViewMode", "resetView", "flyToMine", "rotate", "tiltUp", "tiltDown"}

\* C13 as stated, in the state right after the handler that started the
\* transition, where none of its transitionDuration has run yet: the nudge
\* controls are disabled, isAnimating is true.
C13_DisabledDuringTransition ==
    (lastOp.op \in TransitionStarters /\ viewState.transitionDuration > 0)
    => isAnimating

\* The step just taken called a handler that sets isAnimating and a timer.
SetsTimer ==
    \/ lastOp'.op \in {"toggle3DMode", "setViewMode", "flyToMine"}
    \/ lastOp'.op = "handleMapClick" /\ lastOp'.hit

\* C14: timers are never cancelled: a handler that starts a transition adds
\* its timer behind the pending ones, and a timer goes away only by firing,
\* which clears isAnimating whatever was set since.
C14_TimersNeverCancelled ==
    [][/\ SetsTimer => /\ Len(timers') = Len(timers) + 1
                       /\ SubSeq(timers', 1, Len(timers)) = timers
                       /\ isAnimating'
       /\ Len(timers') < Len(timers) => lastOp'.op = "timeout" /\ ~isAnimating']_vars

\* C14 witness: the oldest timer has fired and cleared isAnimating while the
\* timer of a transition started after it is still to run.
C14_Witness ==
    /\ lastOp.op = "timeout"
    /\ lastOp.fired = 1
    /\ timers # <<>>
    /\ timers[1].due > 0
    /\ ~isAnimating

\* C15 as stated: after startOrbitalRotation in 3D mode a loop is running,
\* a next frame is scheduled, and after stopOrbitalRotation none is.
C15_LoopUntilStopped ==
    /\ (lastOp.op = "startOrbitalRotation" /\ is3DEnabled) => orbits # <<>>
    /\ lastOp.op = "stopOrbitalRotation" => orbits = <<>>

\* C16: the pitch stays in [0, 85] through every handler and control; tilt
\* up adds 15 capped at 85 and tilt down subtracts 15 floored at 0.
C16_PitchInRange ==
    /\ [](viewState.pitch \in 0..85)
    /\ [][/\ lastOp'.op = "tiltUp"
              => viewState'.pitch = IF viewState.pitch + 15 > 85 THEN 85
                                    ELSE viewState.pitch + 15
          /\ lastOp'.op = "tiltDown"
              => viewState'.pitch = IF viewState.pitch - 15 < 0 THEN 0
                                    ELSE viewState.pitch - 15]_vars

\* C16 witness: tilt up from the cross-section preset's 75 was capped at 85.
C16_Witness ==
    /\ lastOp.op = "tiltUp"
    /\ currentViewMode = "cross-section"
    /\ viewState.pitch = 85

\* C18: setViewMode(m) called in 3D mode sets currentViewMode to m and the
\* camera to the preset of m (0/0/10.5/2000, 60/-30/11.2/1800,
\* 75/-45/12.5/2200), and keeps longitude and latitude.
C18_PresetApplied ==
    [][(lastOp'.op = "setViewMode" /\ is3DEnabled)
        => /\ currentViewMode' = lastOp'.mode
           /\ <<viewState'.pitch, viewState'.bearing, viewState'.zoom,
                 viewState'.transitionDuration>> = PresetTarget(lastOp'.mode)
           /\ viewState'.longitude = viewState.longitude
           /\ viewState'.latitude = viewState.latitude]_vars

\* C18 witness: setViewMode('cross-section') was called in 3D after a flight
\* to a mine, and the camera is still over the mine.
C18_Witness ==
    /\ lastOp.op = "setViewMode"
    /\ lastOp.was3D
    /\ lastOp.mode = "cross-section"
    /\ currentViewMode = "cross-section"
    /\ CameraTarget = <<75, -45, 125, 2200>>
    /\ viewState.longitude = 8651
    /\ viewState.latitude = 2381

\* C19 as stated: whenever isAnimating is true it eventually becomes false,
\* with no call needed.
C19_AlwaysCleared == isAnimating ~> ~isAnimating

\* The last call was of a handler that sets a timer.
TimerSetter ==
    \/ lastOp.op \in {"toggle3DMode", "setViewMode", "flyToMine"}
    \/ lastOp.op = "handleMapClick" /\ lastOp.hit

\* C19 amended: isAnimating set by toggle3DMode, setViewMode or flyToMine
\* eventually becomes false with no call needed; with no timer pending, as
\* after startOrbitalRotation alone, only stopOrbitalRotation clears it.
C19_ClearedByTimer ==
    /\ (isAnimating /\ TimerSetter) ~> ~isAnimating
    /\ [][(isAnimating /\ timers = <<>> /\ ~isAnimating')
            => lastOp'.op = "stopOrbitalRotation"]_vars

\* C19 witness: the timer of flyToMine or setViewMode has fired and cleared
\* the flag, no call having been made since.
C19_Witness ==
    /\ lastOp.op = "timeout"
    /\ timers = <<>>
    /\ animationProgress = 100
    /\ ~isAnimating

\* C20: whenever is3DEnabled is false, currentViewMode is 'top-down' and the
\* pitch is 0.
C20_FlatIn2D ==
    ~is3DEnabled => (currentViewMode = "top-down" /\ viewState.pitch = 0)

\* C20 witness: flyToMine was called in 2D mode.
C20_Witness ==
    /\ lastOp.op = "flyToMine"
    /\ ~is3DEnabled
    /\ currentViewMode = "top-down"
    /\ viewState.pitch = 0
    /\ viewState.zoom = 145

----------------------------------------------------------------------------
(* The visualizer alone: a data prop is drawn and the component renders it *)

InitVisualizer ==
    /\ AppInit
    /\ MapPageModes
    /\ data \in DataInputs
    /\ illegalPitsWithData = Undefined
    /\ legalPitsWithData = Undefined
    /\ sources = {}
    /\ lastOp = [op |-> "mount"]

Render ==
    /\ lastOp.op = "mount"
    /\ LET out == MiningPitVisualizer(data)
       IN /\ illegalPitsWithData' = out.illegal
          /\ legalPitsWithData' = out.legal
          /\ sources' = out.sources
    /\ lastOp' = [op |-> "render"]
    /\ UNCHANGED <<viewState, popupInfo, appVars, data, mapVars, calls>>

NextVisualizer == Render

SpecVisualizer == InitVisualizer /\ [][NextVisualizer]_vars

----------------------------------------------------------------------------
(* Claims about the visualizer (SpecVisualizer) *)

Rendered == lastOp.op = "render"

\* The component got past its first return: addDataToFeatures was called.
AnnotatorCalled ==
    /\ data.t = "object"
    /\ "geospatial_data" \in DOMAIN data.f
    /\ data.f.geospatial_data.t = "object"

\* The input collection under geospatial_data[key], undefined when there is none.
InputCollection(key) ==
    IF AnnotatorCalled /\ key \in DOMAIN data.f.geospatial_data.f
    THEN data.f.geospatial_data.f[key]
    ELSE Undefined

SourceIds == {s.id : s \in sources}

\* The properties of the annotated features of a collection, in order.
AnnotatedProperties(pits) ==
    IF pits.t = "object"
    THEN [i \in 1..Len(pits.f.features.e) |-> pits.f.features.e[i].f.properties.f]
    ELSE <<>>

\* An operation record exists at (0-based) index i of data.illegal_operations.
OperationExists(i) ==
    /\ data.t = "object"
    /\ "illegal_operations" \in DOMAIN data.f
    /\ data.f.illegal_operations.t = "array"
    /\ i < Len(data.f.illegal_operations.e)
    /\ data.f.illegal_operations.e[i + 1].t = "object"

\* C1: after annotation every feature's status is its collection's tag; the
\* illegal feature at index i has the depth and volume of operation i when
\* that operation exists and 50 / "N/A" otherwise; every legal feature has
\* 50 / "N/A" whatever illegal_operations holds.
C1_StatusDepthVolume ==
    Rendered =>
      /\ \A i \in DOMAIN AnnotatedProperties(illegalPitsWithData) :
           LET p == AnnotatedProperties(illegalPitsWithData)[i]
           IN /\ p.status = Str("illegal")
              /\ IF OperationExists(i - 1)
                 THEN LET op == data.f.illegal_operations.e[i]
                      IN /\ p.depth = Get(op, "avg_depth_m")
                         /\ p.volume = Get(op, "volume_m3")
                 ELSE p.depth = Num(50) /\ p.volume = Str("N/A")
      /\ \A i \in DOMAIN AnnotatedProperties(legalPitsWithData) :
           LET p == AnnotatedProperties(legalPitsWithData)[i]
           IN p.status = Str("legal") /\ p.depth = Num(50) /\ p.volume = Str("N/A")

\* C1 witness: two illegal features, an operation for the first and none for
\* the second, and a legal feature at an index that has an operation.
C1_Witness ==
    /\ Rendered
    /\ Len(AnnotatedProperties(illegalPitsWithData)) = 2
    /\ Len(AnnotatedProperties(legalPitsWithData)) >= 1
    /\ OperationExists(0)
    /\ ~OperationExists(1)
    /\ AnnotatedProperties(illegalPitsWithData)[1].depth = Num(31)
    /\ AnnotatedProperties(illegalPitsWithData)[2].volume = Str("N/A")

Absent(c) == c.t \in {"undefined", "null"}
LacksFeatures(c) == c.t = "object" /\ Get(c, "features").t \in {"undefined", "null"}
EmptyFeatures(c) == c.t = "object" /\ Get(c, "features") = Arr(<<>>)

PitsOf(key) ==
    IF key = "illegal_polygons" THEN illegalPitsWithData ELSE legalPitsWithData
SourceOf(key) == IF key = "illegal_polygons" THEN "illegal-pits" ELSE "legal-pits"
CollectionKeys == {"illegal_polygons", "legal_polygons"}

\* No source and no layer of the collection is registered.
NothingRegistered(key) == SourceOf(key) \notin SourceIds

\* C2 as stated: a collection that is absent, has no features member, or has
\* an empty features array is annotated to null and registers nothing.
C2_EmptyOrAbsentIsNull ==
    Rendered =>
      \A key \in CollectionKeys :
        LET c == InputCollection(key)
        IN (Absent(c) \/ LacksFeatures(c) \/ EmptyFeatures(c)) =>
             /\ AnnotatorCalled => PitsOf(key) = Null
             /\ NothingRegistered(key)

\* C2 amended: a collection that is absent or has no features member is
\* annotated to null and registers nothing; a collection whose features array
\* is empty is returned with an empty features array, and its source and two
\* layers are registered.
C2_AbsentIsNull ==
    Rendered =>
      \A key \in CollectionKeys :
        LET c == InputCollection(key)
        IN /\ (Absent(c) \/ LacksFeatures(c)) =>
                /\ AnnotatorCalled => PitsOf(key) = Null
                /\ NothingRegistered(key)
           /\ EmptyFeatures(c) =>
                /\ PitsOf(key) = c
                /\ \E s \in sources :
                     /\ s.id = SourceOf(key)
                     /\ s.data = c
                     /\ Cardinality(s.layers) = 2

\* C2 witness: the illegal collection has an empty features array and is
\* registered, the legal collection has no features member and is not.
C2_Witness ==
    /\ Rendered
    /\ EmptyFeatures(InputCollection("illegal_polygons"))
    /\ LacksFeatures(InputCollection("legal_polygons"))
    /\ illegalPitsWithData # Null
    /\ legalPitsWithData = Null
    /\ SourceIds = {"illegal-pits"}

====
